---- MODULE Spec2Model ----
(***************************************************************************)
(* Model of pqdict (src/PriorityQueue1.py): an indexed priority queue.     *)
(*                                                                         *)
(* Python objects are modelled with reference semantics where the code     *)
(* mutates them in place: a _Node is a cell of the store `nodes`, and a    *)
(* heap list holds node addresses.  A Python list is a sequence; Python    *)
(* index i is sequence index i + 1 (see at/put), and every index the       *)
(* model stores or computes (pos, parent, child, position[key]) is the     *)
(* 0-based Python index.  A dict is a function on its key set.             *)
(*                                                                         *)
(* _swim, _sink and _reheapify are called by the source but their bodies   *)
(* are not part of src/; they are modelled from section 4.2 of the         *)
(* specification.                                                          *)
(***************************************************************************)
EXTENDS Integers, Sequences, FiniteSets, TLC

\* ------------------------------------------------------------------ bounds
MaxLen == 3          \* a call that would grow the queue is offered below it
MaxVal == 3          \* values are drawn from 1..MaxVal
MaxCopyLen == 2      \* the same bound for the two queues of SpecCopy
MaxCopyVal == 2      \* values are drawn from 1..MaxCopyVal in SpecCopy

Keys == {"a", "b", "c", "d"}
CopyKeys == {"a", "b", "c"}
Values == 1..MaxVal
CopyValues == 1..MaxCopyVal

VARIABLES
    nodes,      \* store of _Node objects: address -> [key, value, prio]
    heap,       \* self._heap: list of node addresses
    position,   \* self._position: dict key -> index
    keyfn,      \* self._keyfn
    precedes,   \* self._precedes
    tie,        \* the child sink prefers when its two children tie
    copied,     \* TRUE once other = self.copy() was executed
    oheap,      \* other._heap
    oposition,  \* other._position
    last,       \* in SpecCopy: the queue the last call was made on
    mode,       \* "idle", or "drain" while the queue is popped until empty
    start,      \* the queue contents when the drain loop started
    extracted   \* the entries the drain loop has extracted so far

vars == <<nodes, heap, position, keyfn, precedes, tie, copied, oheap,
          oposition, last, mode, start, extracted>>

\* ------------------------------------------------------- lists and dicts
at(l, i) == l[i + 1]
put(l, i, x) == [l EXCEPT ![i + 1] = x]
poplast(l) == SubSeq(l, 1, Len(l) - 1)
Range(l) == {l[i] : i \in 1..Len(l)}
EmptyDict == [k \in {} |-> 0]
dictset(d, k, v) == [x \in (DOMAIN d) \cup {k} |-> IF x = k THEN v ELSE d[x]]
dictdel(d, k) == [x \in (DOMAIN d) \ {k} |-> d[x]]

\* ------------------------------------------------------------------ _Node
Node(key, value, prio) == [key |-> key, value |-> value, prio |-> prio]
\* a fresh address: the store is a list of cells, the next one is its length
Alloc(ns) == Len(ns)

\* --------------------------------------------------------- priority policy
KeyFns == {"None", "half"}
PrecedesFns == {"lt", "gt"}

\* keygen(value) if keygen is not None else value
prioOf(kf, value) == IF kf = "None" THEN value ELSE value \div 2

\* operator.lt / operator.gt
Precedes(a, b) == IF precedes = "lt" THEN a < b ELSE a > b

\* pqdict.__init__: the comparator the constructor stores, or the error
InitPrecedes(reverse, prec) ==
    IF reverse
    THEN IF prec = "lt" THEN [err |-> "none", precedes |-> "gt"]
         ELSE [err |-> "ValueError", precedes |-> prec]
    ELSE [err |-> "none", precedes |-> prec]

\* ---------------------------------------------- machine = store + one queue
Machine(ns, h, p) == [nodes |-> ns, heap |-> h, position |-> p]
node(m, i) == at(m.nodes, at(m.heap, i))
prio(m, i) == node(m, i).prio

View(ns, h, p) == [heap |-> [i \in 1..Len(h) |-> at(ns, h[i])], position |-> p]
ViewM(m) == View(m.nodes, m.heap, m.position)
EmptyView == [heap |-> <<>>, position |-> EmptyDict]

\* exchange the entries at indices i and j, array and index together
Swap(m, i, j) ==
    LET a == at(m.heap, i)
        b == at(m.heap, j)
    IN [m EXCEPT !.heap = put(put(m.heap, i, b), j, a),
                 !.position = dictset(dictset(m.position, at(m.nodes, a).key, j),
                                      at(m.nodes, b).key, i)]

RECURSIVE swim(_, _)
swim(m, pos) ==
    IF pos = 0 THEN m
    ELSE LET parent == (pos - 1) \div 2
         IN IF Precedes(prio(m, pos), prio(m, parent))
            THEN swim(Swap(m, pos, parent), parent)
            ELSE m

\* the child of pos that wins against its sibling
WinningChild(m, pos) ==
    LET l == 2 * pos + 1
        r == 2 * pos + 2
    IN IF r < Len(m.heap)
          /\ (Precedes(prio(m, r), prio(m, l))
              \/ (tie = "right" /\ ~Precedes(prio(m, l), prio(m, r))))
       THEN r ELSE l

RECURSIVE sink(_, _)
sink(m, pos) ==
    IF 2 * pos + 1 >= Len(m.heap) THEN m
    ELSE LET child == WinningChild(m, pos)
         IN IF Precedes(prio(m, child), prio(m, pos))
            THEN sink(Swap(m, pos, child), child)
            ELSE m

reheapify(m, pos) == swim(sink(m, pos), pos)

\* ---------------------------------------------------------------- results
Ok == [err |-> "none", key |-> "-", value |-> 0]
Item(k, v) == [err |-> "none", key |-> k, value |-> v]
Value(v) == [err |-> "none", key |-> "-", value |-> v]
Raise(e) == [err |-> e, key |-> "-", value |-> 0]
Ret(m, r) == [m |-> m, res |-> r]

\* ---------------------------------------------------------- pqdict methods
contains(m, key) == key \in DOMAIN m.position

getitem(m, key) ==
    IF key \notin DOMAIN m.position THEN Ret(m, Raise("KeyNotFound"))
    ELSE Ret(m, Value(node(m, m.position[key]).value))

\* setitem with the call of _swim after the append left out
setitem_noswim(m, key, value) ==
    IF key \notin DOMAIN m.position
    THEN LET n == Len(m.heap)
             a == Alloc(m.nodes)
         IN Ret([nodes |-> Append(m.nodes,
                                  Node(key, value, prioOf(keyfn, value))),
                 heap |-> Append(m.heap, a),
                 position |-> dictset(m.position, key, n)], Ok)
    ELSE LET pos == m.position[key]
             a == at(m.heap, pos)
             m1 == [m EXCEPT !.nodes[a + 1].value = value,
                             !.nodes[a + 1].prio = prioOf(keyfn, value)]
         IN Ret(reheapify(m1, pos), Ok)

\* setitem whose update branch lets the entry pass a parent it ties with
setitem_swimontie(m, key, value) ==
    IF key \notin DOMAIN m.position
    THEN LET n == Len(m.heap)
             a == Alloc(m.nodes)
             m1 == [nodes |-> Append(m.nodes,
                                     Node(key, value, prioOf(keyfn, value))),
                    heap |-> Append(m.heap, a),
                    position |-> dictset(m.position, key, n)]
         IN Ret(swim(m1, n), Ok)
    ELSE LET pos == m.position[key]
             a == at(m.heap, pos)
             m1 == [m EXCEPT !.nodes[a + 1].value = value,
                             !.nodes[a + 1].prio = prioOf(keyfn, value)]
             parent == (pos - 1) \div 2
         IN IF pos > 0 /\ ~Precedes(prio(m1, parent), prio(m1, pos))
            THEN Ret(reheapify(Swap(m1, pos, parent), parent), Ok)
            ELSE Ret(reheapify(m1, pos), Ok)

\* setitem whose update branch calls _sink instead of _reheapify
setitem_sinkonly(m, key, value) ==
    IF key \notin DOMAIN m.position
    THEN LET n == Len(m.heap)
             a == Alloc(m.nodes)
             m1 == [nodes |-> Append(m.nodes,
                                     Node(key, value, prioOf(keyfn, value))),
                    heap |-> Append(m.heap, a),
                    position |-> dictset(m.position, key, n)]
         IN Ret(swim(m1, n), Ok)
    ELSE LET pos == m.position[key]
             a == at(m.heap, pos)
             m1 == [m EXCEPT !.nodes[a + 1].value = value,
                             !.nodes[a + 1].prio = prioOf(keyfn, value)]
         IN Ret(sink(m1, pos), Ok)

\* setitem whose update branch overwrites prio but not value
setitem_keepvalue(m, key, value) ==
    IF key \notin DOMAIN m.position
    THEN LET n == Len(m.heap)
             a == Alloc(m.nodes)
             m1 == [nodes |-> Append(m.nodes,
                                     Node(key, value, prioOf(keyfn, value))),
                    heap |-> Append(m.heap, a),
                    position |-> dictset(m.position, key, n)]
         IN Ret(swim(m1, n), Ok)
    ELSE LET pos == m.position[key]
             a == at(m.heap, pos)
             m1 == [m EXCEPT !.nodes[a + 1].prio = prioOf(keyfn, value)]
         IN Ret(reheapify(m1, pos), Ok)

setitem(m, key, value) ==
    IF key \notin DOMAIN m.position
    THEN \* add
         LET n == Len(m.heap)
             a == Alloc(m.nodes)
             m1 == [nodes |-> Append(m.nodes,
                                     Node(key, value, prioOf(keyfn, value))),
                    heap |-> Append(m.heap, a),
                    position |-> dictset(m.position, key, n)]
         IN Ret(swim(m1, n), Ok)
    ELSE \* update
         LET pos == m.position[key]
             a == at(m.heap, pos)
             m1 == [m EXCEPT !.nodes[a + 1].value = value,
                             !.nodes[a + 1].prio = prioOf(keyfn, value)]
         IN Ret(reheapify(m1, pos), Ok)

\* delitem calling _sink instead of _reheapify
delitem_sinkonly(m, key) ==
    IF key \notin DOMAIN m.position THEN Ret(m, Raise("KeyNotFound"))
    ELSE LET pos == m.position[key]
             p1 == dictdel(m.position, key)
             node_to_delete == at(m.heap, pos)
             end == at(m.heap, Len(m.heap) - 1)
             h1 == poplast(m.heap)
         IN IF end # node_to_delete
            THEN LET m1 == [nodes |-> m.nodes,
                            heap |-> put(h1, pos, end),
                            position |-> dictset(p1, at(m.nodes, end).key, pos)]
                 IN Ret(sink(m1, pos), Ok)
            ELSE Ret([nodes |-> m.nodes, heap |-> h1, position |-> p1], Ok)

\* delitem with heap[pos] = end left out
delitem_droplast(m, key) ==
    IF key \notin DOMAIN m.position THEN Ret(m, Raise("KeyNotFound"))
    ELSE LET pos == m.position[key]
             p1 == dictdel(m.position, key)
             node_to_delete == at(m.heap, pos)
             end == at(m.heap, Len(m.heap) - 1)
             h1 == poplast(m.heap)
         IN IF end # node_to_delete
            THEN LET m1 == [nodes |-> m.nodes,
                            heap |-> h1,
                            position |-> dictset(p1, at(m.nodes, end).key, pos)]
                 IN Ret(reheapify(m1, pos), Ok)
            ELSE Ret([nodes |-> m.nodes, heap |-> h1, position |-> p1], Ok)

\* delitem with the call of _reheapify left out
delitem_noreheapify(m, key) ==
    IF key \notin DOMAIN m.position THEN Ret(m, Raise("KeyNotFound"))
    ELSE LET pos == m.position[key]
             p1 == dictdel(m.position, key)
             node_to_delete == at(m.heap, pos)
             end == at(m.heap, Len(m.heap) - 1)
             h1 == poplast(m.heap)
         IN IF end # node_to_delete
            THEN Ret([nodes |-> m.nodes,
                      heap |-> put(h1, pos, end),
                      position |-> dictset(p1, at(m.nodes, end).key, pos)],
                     Ok)
            ELSE Ret([nodes |-> m.nodes, heap |-> h1, position |-> p1], Ok)

\* delitem with position[end.key] = pos left out
delitem_noindex(m, key) ==
    IF key \notin DOMAIN m.position THEN Ret(m, Raise("KeyNotFound"))
    ELSE LET pos == m.position[key]
             p1 == dictdel(m.position, key)
             node_to_delete == at(m.heap, pos)
             end == at(m.heap, Len(m.heap) - 1)
             h1 == poplast(m.heap)
         IN IF end # node_to_delete
            THEN LET m1 == [nodes |-> m.nodes,
                            heap |-> put(h1, pos, end),
                            position |-> p1]
                 IN Ret(m1, Ok)
            ELSE Ret([nodes |-> m.nodes, heap |-> h1, position |-> p1], Ok)

delitem(m, key) ==
    IF key \notin DOMAIN m.position THEN Ret(m, Raise("KeyNotFound"))
    ELSE LET pos == m.position[key]
             p1 == dictdel(m.position, key)
             node_to_delete == at(m.heap, pos)
             end == at(m.heap, Len(m.heap) - 1)
             h1 == poplast(m.heap)
         IN IF end # node_to_delete
            THEN LET m1 == [nodes |-> m.nodes,
                            heap |-> put(h1, pos, end),
                            position |-> dictset(p1, at(m.nodes, end).key, pos)]
                 IN Ret(reheapify(m1, pos), Ok)
            ELSE Ret([nodes |-> m.nodes, heap |-> h1, position |-> p1], Ok)

\* topitem reading the last entry of the array, self._heap[-1]
topitem_last(m) ==
    IF Len(m.heap) = 0 THEN Ret(m, Raise("Empty"))
    ELSE Ret(m, Item(node(m, Len(m.heap) - 1).key,
                     node(m, Len(m.heap) - 1).value))

topitem(m) ==
    IF Len(m.heap) = 0 THEN Ret(m, Raise("Empty"))
    ELSE Ret(m, Item(node(m, 0).key, node(m, 0).value))

\* additem with the membership test left out
additem_nocheck(m, key, value) == setitem(m, key, value)

additem(m, key, value) ==
    IF key \in DOMAIN m.position THEN Ret(m, Raise("KeyAlreadyExists"))
    ELSE setitem(m, key, value)

\* pushpopitem with del position[old.key] left out
pushpopitem_nodel(m, key, value) ==
    LET a == Alloc(m.nodes)
        ns1 == Append(m.nodes, Node(key, value, prioOf(keyfn, value)))
    IN IF contains(m, key) THEN Ret(m, Raise("KeyAlreadyExists"))
       ELSE IF Len(m.heap) > 0 /\ Precedes(prio(m, 0), at(ns1, a).prio)
            THEN LET old == at(ns1, at(m.heap, 0))
                     m1 == [nodes |-> ns1,
                            heap |-> put(m.heap, 0, a),
                            position |-> dictset(m.position, key, 0)]
                 IN Ret(sink(m1, 0), Item(old.key, old.value))
            ELSE Ret(m, Item(key, value))

\* pushpopitem with the arguments of precedes exchanged
pushpopitem_reversed(m, key, value) ==
    LET a == Alloc(m.nodes)
        ns1 == Append(m.nodes, Node(key, value, prioOf(keyfn, value)))
    IN IF contains(m, key) THEN Ret(m, Raise("KeyAlreadyExists"))
       ELSE IF Len(m.heap) > 0 /\ Precedes(at(ns1, a).prio, prio(m, 0))
            THEN LET old == at(ns1, at(m.heap, 0))
                     m1 == [nodes |-> ns1,
                            heap |-> put(m.heap, 0, a),
                            position |-> dictdel(dictset(m.position, key, 0),
                                                 old.key)]
                 IN Ret(sink(m1, 0), Item(old.key, old.value))
            ELSE Ret(m, Item(key, value))

\* pushpopitem displacing the root unless the new entry precedes it
pushpopitem_ontie(m, key, value) ==
    LET a == Alloc(m.nodes)
        ns1 == Append(m.nodes, Node(key, value, prioOf(keyfn, value)))
    IN IF contains(m, key) THEN Ret(m, Raise("KeyAlreadyExists"))
       ELSE IF Len(m.heap) > 0 /\ ~Precedes(at(ns1, a).prio, prio(m, 0))
            THEN LET old == at(ns1, at(m.heap, 0))
                     m1 == [nodes |-> ns1,
                            heap |-> put(m.heap, 0, a),
                            position |-> dictdel(dictset(m.position, key, 0),
                                                 old.key)]
                 IN Ret(sink(m1, 0), Item(old.key, old.value))
            ELSE Ret(m, Item(key, value))

pushpopitem(m, key, value) ==
    LET a == Alloc(m.nodes)
        ns1 == Append(m.nodes, Node(key, value, prioOf(keyfn, value)))
    IN IF contains(m, key) THEN Ret(m, Raise("KeyAlreadyExists"))
       ELSE IF Len(m.heap) > 0 /\ Precedes(prio(m, 0), at(ns1, a).prio)
            THEN LET old == at(ns1, at(m.heap, 0))
                     m1 == [nodes |-> ns1,
                            heap |-> put(m.heap, 0, a),
                            position |-> dictdel(dictset(m.position, key, 0),
                                                 old.key)]
                 IN Ret(sink(m1, 0), Item(old.key, old.value))
            ELSE Ret(m, Item(key, value))

\* updateitem with the membership test left out
updateitem_nocheck(m, key, new_val) == setitem(m, key, new_val)

updateitem(m, key, new_val) ==
    IF key \notin DOMAIN m.position THEN Ret(m, Raise("KeyNotFound"))
    ELSE setitem(m, key, new_val)

\* replace_key returning at once when key and new_key are the same present key
replace_key_selfok(m, key, new_key) ==
    IF key = new_key /\ contains(m, key) THEN Ret(m, Ok)
    ELSE IF contains(m, new_key) THEN Ret(m, Raise("KeyAlreadyExists"))
    ELSE IF key \notin DOMAIN m.position THEN Ret(m, Raise("KeyNotFound"))
    ELSE LET pos == m.position[key]
         IN Ret([nodes |-> [m.nodes EXCEPT ![at(m.heap, pos) + 1].key = new_key],
                 heap |-> m.heap,
                 position |-> dictset(dictdel(m.position, key), new_key, pos)],
                Ok)

\* replace_key popping position[key] before it tests new_key
replace_key_poplate(m, key, new_key) ==
    IF key \notin DOMAIN m.position THEN Ret(m, Raise("KeyNotFound"))
    ELSE IF contains([m EXCEPT !.position = dictdel(m.position, key)], new_key)
    THEN Ret([m EXCEPT !.position = dictdel(m.position, key)],
             Raise("KeyAlreadyExists"))
    ELSE LET pos == m.position[key]
         IN Ret([nodes |-> [m.nodes EXCEPT ![at(m.heap, pos) + 1].key = new_key],
                 heap |-> m.heap,
                 position |-> dictset(dictdel(m.position, key), new_key, pos)],
                Ok)

\* replace_key reading position[key] instead of popping it
replace_key_keepold(m, key, new_key) ==
    IF contains(m, new_key) THEN Ret(m, Raise("KeyAlreadyExists"))
    ELSE IF key \notin DOMAIN m.position THEN Ret(m, Raise("KeyNotFound"))
    ELSE LET pos == m.position[key]
         IN Ret([nodes |-> [m.nodes EXCEPT ![at(m.heap, pos) + 1].key = new_key],
                 heap |-> m.heap,
                 position |-> dictset(m.position, new_key, pos)],
                Ok)

\* replace_key with heap[pos].key = new_key left out
replace_key_norename(m, key, new_key) ==
    IF contains(m, new_key) THEN Ret(m, Raise("KeyAlreadyExists"))
    ELSE IF key \notin DOMAIN m.position THEN Ret(m, Raise("KeyNotFound"))
    ELSE LET pos == m.position[key]
         IN Ret([nodes |-> m.nodes,
                 heap |-> m.heap,
                 position |-> dictset(dictdel(m.position, key), new_key, pos)],
                Ok)

replace_key(m, key, new_key) ==
    IF contains(m, new_key) THEN Ret(m, Raise("KeyAlreadyExists"))
    ELSE IF key \notin DOMAIN m.position THEN Ret(m, Raise("KeyNotFound"))
    ELSE LET pos == m.position[key]
         IN Ret([nodes |-> [m.nodes EXCEPT ![at(m.heap, pos) + 1].key = new_key],
                 heap |-> m.heap,
                 position |-> dictset(dictdel(m.position, key), new_key, pos)],
                Ok)

\* other._heap = [_Node(node.key, node.value, node.prio) for node in self._heap]
copyNodes(ns, h) ==
    [nodes |-> ns \o [i \in 1..Len(h) |->
                        Node(at(ns, h[i]).key, at(ns, h[i]).value,
                             at(ns, h[i]).prio)],
     heap |-> [i \in 1..Len(h) |-> Len(ns) + i - 1]]

\* copy with other._heap = list(self._heap): a new list of the same nodes
copy_shallow(m) == [nodes |-> m.nodes, heap |-> m.heap, position |-> m.position]

\* other._position = self._position.copy()
copy(m) ==
    LET c == copyNodes(m.nodes, m.heap)
    IN [nodes |-> c.nodes, heap |-> c.heap, position |-> m.position]

\* pop(key) of the mapping base class: v = self[key]; del self[key]; return v
pop(m, key) ==
    LET g == getitem(m, key)
    IN IF g.res.err # "none" THEN g
       ELSE Ret(delitem(m, key).m, g.res)

\* the queue of the update branch of __setitem__ when it calls _reheapify
updated(m, key, value) ==
    LET pos == m.position[key]
        a == at(m.heap, pos)
    IN [m EXCEPT !.nodes[a + 1].value = value,
                 !.nodes[a + 1].prio = prioOf(keyfn, value)]

\* the queue of __delitem__ when it calls _reheapify: the last node stands
\* in the slot of key (key is present and is not the key of the last node)
vacated(m, key) ==
    LET pos == m.position[key]
        p1 == dictdel(m.position, key)
        end == at(m.heap, Len(m.heap) - 1)
        h1 == poplast(m.heap)
    IN [nodes |-> m.nodes,
        heap |-> put(h1, pos, end),
        position |-> dictset(p1, at(m.nodes, end).key, pos)]

\* ------------------------------------------------- addresses of the store
\* Addresses are opaque: a node is observable only through the lists that
\* hold it.  After every call the unreachable nodes are collected and the
\* reachable ones renumbered (self's nodes in array order, then the nodes
\* only the copy holds), so that equal object graphs are equal states.
IndexOf(l, a) == CHOOSE i \in 1..Len(l) : l[i] = a
Collect(ns, h, oh) ==
    LET only == SelectSeq(oh, LAMBDA a : a \notin Range(h))
        live == h \o only
    IN [nodes |-> [b \in 1..Len(live) |-> at(ns, live[b])],
        heap |-> [i \in 1..Len(h) |-> i - 1],
        oheap |-> [i \in 1..Len(oh) |-> IndexOf(live, oh[i]) - 1]]

Self == Machine(nodes, heap, position)
Other == Machine(nodes, oheap, oposition)
SelfView == View(nodes, heap, position)
OtherView == View(nodes, oheap, oposition)

\* the state after a call on self that returned r
StoreSelf(r) ==
    LET g == Collect(r.m.nodes, r.m.heap, oheap)
    IN /\ nodes' = g.nodes
       /\ heap' = g.heap
       /\ oheap' = g.oheap
       /\ position' = r.m.position
       /\ oposition' = oposition

\* the state after a call on the copy that returned r
StoreOther(r) ==
    LET g == Collect(r.m.nodes, heap, r.m.heap)
    IN /\ nodes' = g.nodes
       /\ heap' = g.heap
       /\ oheap' = g.oheap
       /\ position' = position
       /\ oposition' = r.m.position


\* ------------------------------------------------------------------- Init
Init ==
    /\ nodes = <<>>
    /\ heap = <<>>
    /\ position = EmptyDict
    /\ keyfn \in KeyFns
    /\ \E reverse \in BOOLEAN, prec \in PrecedesFns :
          /\ InitPrecedes(reverse, prec).err = "none"
          /\ precedes = InitPrecedes(reverse, prec).precedes
    /\ tie \in {"left", "right"}
    /\ copied = FALSE
    /\ oheap = <<>>
    /\ oposition = EmptyDict
    /\ last = "-"
    /\ mode = "idle"
    /\ start = EmptyView
    /\ extracted = <<>>

\* --------------------------------------------- calls on a single queue
\* A call that raises, and a call that only reads, leaves every variable as
\* it was: what it returns is the res field of the method's result.
Frame ==
    UNCHANGED <<keyfn, precedes, tie, copied, last, mode, start, extracted>>

SetItem(k, v) ==
    /\ mode = "idle" /\ ~copied
    /\ k \in DOMAIN position \/ Len(heap) < MaxLen
    /\ StoreSelf(setitem(Self, k, v))
    /\ Frame

DelItem(k) ==
    /\ mode = "idle" /\ ~copied
    /\ StoreSelf(delitem(Self, k))
    /\ Frame

GetItem(k) ==
    /\ mode = "idle" /\ ~copied
    /\ StoreSelf(getitem(Self, k))
    /\ Frame

TopItem ==
    /\ mode = "idle" /\ ~copied
    /\ StoreSelf(topitem(Self))
    /\ Frame

AddItem(k, v) ==
    /\ mode = "idle" /\ ~copied
    /\ k \in DOMAIN position \/ Len(heap) < MaxLen
    /\ StoreSelf(additem(Self, k, v))
    /\ Frame

PushPopItem(k, v) ==
    /\ mode = "idle" /\ ~copied
    /\ StoreSelf(pushpopitem(Self, k, v))
    /\ Frame

UpdateItem(k, v) ==
    /\ mode = "idle" /\ ~copied
    /\ StoreSelf(updateitem(Self, k, v))
    /\ Frame

ReplaceKey(k, nk) ==
    /\ mode = "idle" /\ ~copied
    /\ StoreSelf(replace_key(Self, k, nk))
    /\ Frame

\* --------------------------------- popping the queue until it is empty
StartDrain ==
    /\ mode = "idle" /\ ~copied
    /\ mode' = "drain"
    /\ start' = SelfView
    /\ extracted' = <<>>
    /\ UNCHANGED <<nodes, heap, position, keyfn, precedes, tie, copied,
                   oheap, oposition, last>>

\* k, v = pq.topitem(); del pq[k]
DrainStep ==
    /\ mode = "drain"
    /\ Len(heap) > 0
    /\ LET t == topitem(Self)
           r == delitem(Self, t.res.key)
       IN /\ StoreSelf(r)
          /\ extracted' = Append(extracted, node(Self, position[t.res.key]))
    /\ UNCHANGED <<keyfn, precedes, tie, copied, last, mode, start>>

Next ==
    \/ \E k \in Keys, v \in Values : SetItem(k, v)
    \/ \E k \in Keys : DelItem(k)
    \/ \E k \in Keys : GetItem(k)
    \/ TopItem
    \/ \E k \in Keys, v \in Values : AddItem(k, v)
    \/ \E k \in Keys, v \in Values : PushPopItem(k, v)
    \/ \E k \in Keys, v \in Values : UpdateItem(k, v)
    \/ \E k \in Keys, nk \in Keys : ReplaceKey(k, nk)

Spec == Init /\ [][Next]_vars

\* the same calls, and at any time the start of the drain loop
NextDrain ==
    \/ Next
    \/ StartDrain
    \/ DrainStep

SpecDrain == Init /\ [][NextDrain]_vars

\* ------------------------------------------- a queue and its copy
\* other = self.copy(), and then calls on either queue ("q" is self, "c" is
\* the copy), from the default construction pqdict().
InitCopy == Init /\ keyfn = "None" /\ precedes = "lt" /\ tie = "left"

Target(t) == IF t = "q" THEN Self ELSE Other
Store(t, r) == IF t = "q" THEN StoreSelf(r) ELSE StoreOther(r)
FrameCopy == UNCHANGED <<keyfn, precedes, tie, copied, mode, start, extracted>>

DoCopy ==
    /\ mode = "idle" /\ ~copied
    /\ LET c == copy(Self)
           g == Collect(c.nodes, heap, c.heap)
       IN /\ nodes' = g.nodes
          /\ heap' = g.heap
          /\ oheap' = g.oheap
          /\ oposition' = c.position
    /\ copied' = TRUE
    /\ last' = "copy"
    /\ UNCHANGED <<position, keyfn, precedes, tie, mode, start, extracted>>

OnSetItem(t, k, v) ==
    /\ t = "c" => copied
    /\ k \in DOMAIN Target(t).position \/ Len(Target(t).heap) < MaxCopyLen
    /\ Store(t, setitem(Target(t), k, v))
    /\ last' = t
    /\ FrameCopy

OnDelItem(t, k) ==
    /\ t = "c" => copied
    /\ Store(t, delitem(Target(t), k))
    /\ last' = t
    /\ FrameCopy

OnPushPopItem(t, k, v) ==
    /\ t = "c" => copied
    /\ Store(t, pushpopitem(Target(t), k, v))
    /\ last' = t
    /\ FrameCopy

OnReplaceKey(t, k, nk) ==
    /\ t = "c" => copied
    /\ Store(t, replace_key(Target(t), k, nk))
    /\ last' = t
    /\ FrameCopy

NextCopy ==
    \/ DoCopy
    \/ \E t \in {"q", "c"}, k \in CopyKeys, v \in CopyValues : OnSetItem(t, k, v)
    \/ \E t \in {"q", "c"}, k \in CopyKeys : OnDelItem(t, k)
    \/ \E t \in {"q", "c"}, k \in CopyKeys, v \in CopyValues :
          OnPushPopItem(t, k, v)
    \/ \E t \in {"q", "c"}, k \in CopyKeys, nk \in CopyKeys :
          OnReplaceKey(t, k, nk)

SpecCopy == InitCopy /\ [][NextCopy]_vars

\* ------------------------- a queue filled key by key, then one call
\* pq = pqdict(); pq.additem(k, v) for the keys in a fixed order, and then
\* one updateitem or pop of any key.
MaxFillLen == 6      \* the longest queue that is filled
MaxFillVal == 3      \* values are drawn from 1..MaxFillVal while filling

KeyNames == <<"a", "b", "c", "d", "e", "f", "g", "h">>
FillKeys == {KeyNames[i] : i \in 1..MaxFillLen}
FillValues == 1..MaxFillVal

InitFill == Init /\ keyfn = "None" /\ precedes = "lt"

FrameFill == UNCHANGED <<keyfn, precedes, tie, copied, last, start, extracted>>

FillItem(v) ==
    /\ mode = "idle"
    /\ Len(heap) < MaxFillLen
    /\ StoreSelf(additem(Self, KeyNames[Len(heap) + 1], v))
    /\ mode' = mode
    /\ FrameFill

ThenUpdateItem(k, v) ==
    /\ mode = "idle"
    /\ StoreSelf(updateitem(Self, k, v))
    /\ mode' = "done"
    /\ FrameFill

ThenPop(k) ==
    /\ mode = "idle"
    /\ StoreSelf(pop(Self, k))
    /\ mode' = "done"
    /\ FrameFill

NextFill ==
    \/ \E v \in FillValues : FillItem(v)
    \/ \E k \in FillKeys, v \in 0..(MaxFillVal + 1) : ThenUpdateItem(k, v)
    \/ \E k \in FillKeys : ThenPop(k)

SpecFill == InitFill /\ [][NextFill]_vars

\* ----------------------------------------------------------- properties
Absent == Keys \ DOMAIN position
Indices(m) == 0..(Len(m.heap) - 1)
Entries(m) == {node(m, i) : i \in Indices(m)}

HeapOrdered(m) ==
    \A i \in Indices(m) : \A c \in {2 * i + 1, 2 * i + 2} :
        c < Len(m.heap) => ~Precedes(prio(m, c), prio(m, i))

IndexConsistent(m) ==
    /\ DOMAIN m.position = {node(m, i).key : i \in Indices(m)}
    /\ \A i, j \in Indices(m) : node(m, i).key = node(m, j).key => i = j
    /\ \A k \in DOMAIN m.position :
          m.position[k] \in Indices(m) /\ node(m, m.position[k]).key = k
    /\ Cardinality(DOMAIN m.position) = Len(m.heap)

\* C1: heap invariant. In every state reachable by the public mutations from
\* the empty queue, no child strictly precedes its parent under the
\* configured comparator.
C1_HeapInvariant == HeapOrdered(Self)

\* a three-entry heap whose root strictly precedes both of its children
C1_Witness ==
    /\ Len(heap) = 3
    /\ Precedes(prio(Self, 0), prio(Self, 1))
    /\ Precedes(prio(Self, 0), prio(Self, 2))

\* C2: index consistency. The position map's key set is the set of keys in
\* the array, no key is at two indices, array[position[k]].key = k for every
\* key, and the map is as large as the array.
C2_IndexConsistent == IndexConsistent(Self)

\* a three-entry queue whose key at index 0 is not the first key inserted in
\* array order: entries have moved and the index followed them
C2_Witness ==
    /\ Len(heap) = 3
    /\ position = [k \in {"a", "b", "c"} |->
                     IF k = "c" THEN 0 ELSE IF k = "a" THEN 1 ELSE 2]

\* the values a new entry is tried with: those the queue stores and one
\* beyond each end, so that a new entry can precede every stored entry
NewValues == 0..(MaxVal + 1)

\* additem(k, v), then k2, v2 = topitem(), then del pq[k2]
AddThenPop(m, k, v) ==
    LET a == additem(m, k, v).m
        t == topitem(a)
    IN Ret(delitem(a, t.res.key).m, t.res)

\* additem(k, v), then del pq[k]
AddThenRemove(m, k, v) == delitem(additem(m, k, v).m, k)

C4_DrainOrdered ==
    mode = "drain" =>
        /\ Len(extracted) + Len(heap) = Len(start.heap)
        /\ Range(extracted) \cup Entries(Self) = Range(start.heap)
        /\ \A i, j \in 1..Len(extracted) :
              i < j => ~Precedes(extracted[j].prio, extracted[i].prio)
        /\ \A i \in 1..Len(extracted) : \A e \in Entries(Self) :
              ~Precedes(e.prio, extracted[i].prio)

\* a queue of three entries drained to the end, whose first and last
\* extracted priorities differ and whose array was not in priority order
C4_Witness ==
    /\ mode = "drain"
    /\ Len(heap) = 0
    /\ Len(extracted) = 3
    /\ Precedes(extracted[1].prio, extracted[3].prio)
    /\ Precedes(start.heap[3].prio, start.heap[2].prio)

\* C5 as stated: additem(k, v) followed by removal of k restores the array
\* order and the index exactly, for every priority of v, ties included.
C5_RoundTripExact ==
    \A k \in Absent, v \in NewValues :
        ViewM(AddThenRemove(Self, k, v).m) = SelfView

PairwiseDistinct(m) ==
    \A i, j \in Indices(m) : prio(m, i) = prio(m, j) => i = j

\* C5 amended: additem(k, v) followed by removal of k restores the size and
\* the set of entries (every other key with its value and priority), in heap
\* order and with a consistent index; it restores the array order and the
\* index exactly when no two entries of the queue have the same priority.
C5_RoundTrip ==
    \A k \in Absent, v \in NewValues :
        LET r == AddThenRemove(Self, k, v)
        IN /\ r.res.err = "none"
           /\ Len(r.m.heap) = Len(heap)
           /\ Entries(r.m) = Entries(Self)
           /\ HeapOrdered(r.m) /\ IndexConsistent(r.m)
           /\ PairwiseDistinct(Self) => ViewM(r.m) = SelfView

\* three entries of distinct priorities, and a new entry that swims from
\* index 3 to the root before it is removed
C5_Witness ==
    /\ Len(heap) = 3
    /\ PairwiseDistinct(Self)
    /\ \E k \in Absent, v \in NewValues :
          additem(Self, k, v).m.position[k] = 0

\* C6: pushpopitem branches. If the queue is non-empty and the top strictly
\* precedes the new entry, the old root is returned, its key leaves the
\* index and the new key is a member; otherwise (empty, or the top does not
\* strictly precede it, ties included) the queue is unmodified, the new key
\* is no member and the new item is returned.
C6_PushPopBranches ==
    \A k \in Absent, v \in NewValues :
        LET r == pushpopitem(Self, k, v)
        IN IF Len(heap) > 0 /\ Precedes(prio(Self, 0), prioOf(keyfn, v))
           THEN /\ r.res = Item(node(Self, 0).key, node(Self, 0).value)
                /\ node(Self, 0).key \notin DOMAIN r.m.position
                /\ k \in DOMAIN r.m.position
                /\ getitem(r.m, k).res = Value(v)
           ELSE /\ r.res = Item(k, v)
                /\ ViewM(r.m) = SelfView
                /\ k \notin DOMAIN r.m.position

\* a full queue that has both branches: one new entry the top strictly
\* precedes, one that ties with the top
C6_Witness ==
    /\ Len(heap) = 3
    /\ \E k \in Absent :
          /\ \E v \in Values : Precedes(prio(Self, 0), prioOf(keyfn, v))
          /\ \E v \in Values : prioOf(keyfn, v) = prio(Self, 0)
    /\ Precedes(prio(Self, 0), prio(Self, 2))

\* C7: replace_key(old, new) for a present old and an absent new: old is
\* absent, new maps to old's value and priority at the same array index, and
\* every other entry and every other key's index are unchanged.
C7_ReplaceKey ==
    \A old \in DOMAIN position, new \in Absent :
        LET r == replace_key(Self, old, new)
            pos == position[old]
        IN /\ r.res.err = "none"
           /\ old \notin DOMAIN r.m.position
           /\ new \in DOMAIN r.m.position
           /\ r.m.position[new] = pos
           /\ node(r.m, pos) = Node(new, node(Self, pos).value,
                                    node(Self, pos).prio)
           /\ getitem(r.m, new).res = Value(node(Self, pos).value)
           /\ Len(r.m.heap) = Len(heap)
           /\ \A i \in Indices(Self) : i # pos => node(r.m, i) = node(Self, i)
           /\ \A k \in DOMAIN position \ {old} :
                 k \in DOMAIN r.m.position /\ r.m.position[k] = position[k]
           /\ DOMAIN r.m.position = (DOMAIN position \ {old}) \cup {new}

\* a three-entry queue whose renamed key is not at the root, with an absent
\* key to rename it to
C7_Witness ==
    /\ Len(heap) = 3
    /\ Absent # {}
    /\ \E old \in DOMAIN position :
          position[old] = 2 /\ node(Self, 2).value # node(Self, 2).prio

\* C9: additem(k, v) and pushpopitem(k, v) with a present key k raise the
\* key-already-present error for every v and leave array and index as they
\* were.
C9_DuplicateRejected ==
    \A k \in DOMAIN position, v \in NewValues :
        /\ additem(Self, k, v).res = Raise("KeyAlreadyExists")
        /\ ViewM(additem(Self, k, v).m) = SelfView
        /\ pushpopitem(Self, k, v).res = Raise("KeyAlreadyExists")
        /\ ViewM(pushpopitem(Self, k, v).m) = SelfView

\* a queue holding k at the root and k below it, and a value that would
\* move either if the call were an update
C9_Witness ==
    /\ Len(heap) = 2
    /\ \E v \in Values : Precedes(prio(Self, 1), prioOf(keyfn, v))
    /\ \E v \in Values : Precedes(prioOf(keyfn, v), prio(Self, 0))

\* C10: get(k), updateitem(k, v) and removal of k with an absent key k raise
\* the key-not-found error and leave array and index as they were.
C10_AbsentRejected ==
    \A k \in Absent :
        /\ getitem(Self, k).res = Raise("KeyNotFound")
        /\ ViewM(getitem(Self, k).m) = SelfView
        /\ delitem(Self, k).res = Raise("KeyNotFound")
        /\ ViewM(delitem(Self, k).m) = SelfView
        /\ \A v \in NewValues :
              /\ updateitem(Self, k, v).res = Raise("KeyNotFound")
              /\ ViewM(updateitem(Self, k, v).m) = SelfView

\* a non-empty queue with room left and an absent key
C10_Witness ==
    /\ Len(heap) = 2
    /\ Absent # {}
    /\ prio(Self, 0) # prio(Self, 1)

\* C8: copy independence. The step other = self.copy() leaves self as it
\* was and gives the copy the same array, entries and index; from then on a
\* call on the copy leaves self's array and index unchanged, and a call on
\* self leaves the copy's unchanged.
C8_CopyIndependent ==
    [][/\ last' = "copy" => OtherView' = SelfView /\ SelfView' = SelfView
       /\ (copied /\ last' = "c") => SelfView' = SelfView
       /\ (copied /\ last' = "q") => OtherView' = OtherView]_vars

\* after a call on the copy, both queues hold the same two keys at the same
\* indices and one of them has a different value in the copy: the copy's
\* entry was updated in place
C8_Witness ==
    /\ copied
    /\ last = "c"
    /\ Len(heap) = 2
    /\ oposition = position
    /\ \E k \in DOMAIN position :
          getitem(Other, k).res # getitem(Self, k).res

\* replace_key(old, new) raises the key-not-found error whenever old is
\* absent, whatever new is
C11_OldAbsentNotFound ==
    \A old \in Absent, new \in Keys :
        replace_key(Self, old, new).res = Raise("KeyNotFound")

\* C11: replace_key error contract. replace_key(old, new) raises the
\* key-already-present error if new is present (old present or not) and the
\* key-not-found error if old is absent and new is absent too; in every
\* failing case the array and the index, the entry under new included, are
\* as they were.
C11_ReplaceKeyErrors ==
    \A old \in Keys, new \in Keys :
        LET r == replace_key(Self, old, new)
        IN /\ new \in DOMAIN position => r.res = Raise("KeyAlreadyExists")
           /\ (old \notin DOMAIN position /\ new \notin DOMAIN position)
                 => r.res = Raise("KeyNotFound")
           /\ (old \notin DOMAIN position \/ new \in DOMAIN position)
                 => /\ r.res.err # "none"
                    /\ ViewM(r.m) = SelfView
                    /\ ViewM(Machine(nodes, heap, r.m.position)) = SelfView

\* a two-entry queue with two absent keys: every failing combination of
\* old and new exists (old absent and new present, both present, both absent)
C11_Witness ==
    /\ Len(heap) = 2
    /\ Cardinality(Absent) = 2
    /\ prio(Self, 0) # prio(Self, 1)
    /\ \E old \in Absent, new \in DOMAIN position :
          replace_key(Self, old, new).res.err = "KeyAlreadyExists"

\* C12: topitem is a pure peek. On a non-empty queue it returns the key and
\* value of the entry at array index 0, on an empty queue it raises the
\* empty-queue error; in both cases array and index are as they were.
C12_TopItemPeek ==
    LET r == topitem(Self)
    IN /\ ViewM(r.m) = SelfView
       /\ Len(heap) > 0 => r.res = Item(node(Self, 0).key, node(Self, 0).value)
       /\ Len(heap) = 0 => r.res = Raise("Empty") /\ Len(r.m.heap) = 0

\* a queue after a removal whose root differs from its last entry in key
\* and value
C12_Witness ==
    /\ Len(heap) = 2
    /\ node(Self, 0).value # node(Self, 1).value
    /\ topitem(Self).res.key = node(Self, 0).key

\* C13: assignment is upsert. self[k] = v never raises on key presence; for
\* an absent k it creates the entry and the length grows by one, for a
\* present k it overwrites value and priority and leaves length and key set
\* as they were; afterwards self[k] is v and every other key has the value
\* it had.
C13_SetItemUpsert ==
    \A k \in Keys, v \in NewValues :
        LET r == setitem(Self, k, v)
        IN /\ r.res = Ok
           /\ k \notin DOMAIN position
                 => /\ Len(r.m.heap) = Len(heap) + 1
                    /\ DOMAIN r.m.position = DOMAIN position \cup {k}
           /\ k \in DOMAIN position
                 => /\ Len(r.m.heap) = Len(heap)
                    /\ DOMAIN r.m.position = DOMAIN position
           /\ getitem(r.m, k).res = Value(v)
           /\ node(r.m, r.m.position[k]) = Node(k, v, prioOf(keyfn, v))
           /\ \A j \in DOMAIN position \ {k} :
                 getitem(r.m, j).res = getitem(Self, j).res

\* a full queue in which an assignment to a present key changes its value
\* and moves its entry to another array index
C13_Witness ==
    /\ Len(heap) = MaxLen
    /\ \E k \in DOMAIN position, v \in NewValues :
          /\ getitem(Self, k).res # Value(v)
          /\ setitem(Self, k, v).m.position[k] # position[k]

\* C14: removal effect. Removing a present key k, at the root, inside the
\* array or at its end, yields the value k had, makes k absent, shrinks the
\* length by exactly one and keeps every other key with its value and
\* priority; when k was the last array entry no other entry changes its
\* array index.
C14_RemovalEffect ==
    mode = "idle" =>
    \A k \in DOMAIN position :
        LET r == pop(Self, k)
            old == node(Self, position[k])
        IN /\ r.res = Value(old.value)
           /\ old.key = k
           /\ ~contains(r.m, k)
           /\ Len(r.m.heap) = Len(heap) - 1
           /\ DOMAIN r.m.position = DOMAIN position \ {k}
           /\ \A j \in DOMAIN position \ {k} :
                 node(r.m, r.m.position[j]) = node(Self, position[j])
           /\ \A i \in Indices(r.m) : node(r.m, i).key # k
           /\ position[k] = Len(heap) - 1
                 => /\ \A j \in DOMAIN position \ {k} :
                          r.m.position[j] = position[j]
                    /\ ViewM(r.m).heap = SubSeq(SelfView.heap, 1, Len(heap) - 1)

\* a full queue where removing an inner entry lets the moved last entry
\* swim, and removing the root lets it sink
C14_Witness ==
    /\ mode = "idle"
    /\ Len(heap) = MaxFillLen
    /\ \E k \in DOMAIN position :
          /\ position[k] \notin {0, Len(heap) - 1}
          /\ swim(vacated(Self, k), position[k]) # vacated(Self, k)
    /\ sink(vacated(Self, node(Self, 0).key), 0)
          # vacated(Self, node(Self, 0).key)

\* the heap-array invariant as section 3 words it: every parent strictly
\* precedes each of its children
C15_StrictHeapOrder ==
    \A i \in Indices(Self) : \A c \in {2 * i + 1, 2 * i + 2} :
        c < Len(heap) => Precedes(prio(Self, i), prio(Self, c))

\* C15: data-model heap-array invariant. At the boundary of every public
\* operation, for every valid index i and every existing child of i, the
\* priority at i precedes the child's priority or is equal to it.
C15_HeapOrderOrTie ==
    \A i \in Indices(Self) : \A c \in {2 * i + 1, 2 * i + 2} :
        c < Len(heap) => \/ Precedes(prio(Self, i), prio(Self, c))
                         \/ prio(Self, i) = prio(Self, c)

\* a three-entry heap whose root ties with one child and strictly precedes
\* the other
C15_Witness ==
    /\ Len(heap) = 3
    /\ \E c, d \in {1, 2} :
          /\ prio(Self, 0) = prio(Self, c)
          /\ Precedes(prio(Self, 0), prio(Self, d))

\* the two phases of _reheapify(pos) on the queue m1: at most one of them
\* swaps, and the array is in heap order afterwards
OneDirection(m1, pos) ==
    LET s == sink(m1, pos)
        w == swim(s, pos)
    IN /\ ~(s # m1 /\ w # s)
       /\ w = reheapify(m1, pos)
       /\ HeapOrdered(w)

\* C16: _reheapify moves in at most one direction. When it runs after an
\* in-place value change (updateitem) or after the last entry was moved
\* into a vacated slot (removal), at most one of its two phases, sink and
\* then swim, swaps anything, and the whole array is in heap order when it
\* returns.
C16_ReheapifyOneDirection ==
    mode = "idle" =>
    /\ \A k \in DOMAIN position, v \in 0..(MaxFillVal + 1) :
          /\ OneDirection(updated(Self, k, v), position[k])
          /\ updateitem(Self, k, v).m
                = reheapify(updated(Self, k, v), position[k])
    /\ \A k \in DOMAIN position :
          position[k] # Len(heap) - 1
             => /\ OneDirection(vacated(Self, k), position[k])
                /\ delitem(Self, k).m = reheapify(vacated(Self, k), position[k])

\* a full queue with an update that sinks over two levels, an update that
\* swims, a removal that sinks and a removal that swims
C16_Witness ==
    /\ mode = "idle"
    /\ Len(heap) = MaxFillLen
    /\ \E k \in DOMAIN position, v \in FillValues :
          /\ position[k] = 0
          /\ sink(updated(Self, k, v), 0).position[k] > 2
    /\ \E k \in DOMAIN position, v \in FillValues :
          swim(updated(Self, k, v), position[k]).position[k] < position[k]
    /\ \E k \in DOMAIN position :
          /\ position[k] # Len(heap) - 1
          /\ sink(vacated(Self, k), position[k]) # vacated(Self, k)
    /\ \E k \in DOMAIN position :
          /\ position[k] # Len(heap) - 1
          /\ swim(vacated(Self, k), position[k]) # vacated(Self, k)

\* C17: pushpopitem conserves size and returns the winner. For an absent
\* key k, pushpopitem(k, v) succeeds and leaves the length as it was; the
\* item it returns is an entry of the old contents plus the new entry that
\* none of these, and so no entry left in the queue, strictly precedes; the
\* key set afterwards is the old one, or the old one without the old top's
\* key and with k.
C17_PushPopConserves ==
    \A k \in Absent, v \in NewValues :
        LET r == pushpopitem(Self, k, v)
            new == Node(k, v, prioOf(keyfn, v))
            ret == Node(r.res.key, r.res.value, prioOf(keyfn, r.res.value))
        IN /\ r.res.err = "none"
           /\ Len(r.m.heap) = Len(heap)
           /\ ret \in Entries(Self) \cup {new}
           /\ \A e \in Entries(Self) \cup {new} : ~Precedes(e.prio, ret.prio)
           /\ \A i \in Indices(r.m) : ~Precedes(prio(r.m, i), ret.prio)
           /\ Entries(r.m) \cup {ret} = Entries(Self) \cup {new}
           /\ \/ DOMAIN r.m.position = DOMAIN position
              \/ /\ Len(heap) > 0
                 /\ DOMAIN r.m.position
                       = (DOMAIN position \ {node(Self, 0).key}) \cup {k}
           /\ {node(r.m, i).key : i \in Indices(r.m)} = DOMAIN r.m.position

\* a full queue on which one pushpopitem displaces the root and lets the
\* new entry sink, and another returns its own argument
C17_Witness ==
    /\ Len(heap) = MaxLen
    /\ \E k \in Absent, v \in NewValues :
          /\ pushpopitem(Self, k, v).res.key = node(Self, 0).key
          /\ pushpopitem(Self, k, v).m.position[k] > 0
    /\ \E k \in Absent, v \in NewValues :
          /\ pushpopitem(Self, k, v).res.key = k
          /\ Precedes(prioOf(keyfn, v), prio(Self, 0))

\* C18: replace_key of a key onto itself is rejected. For a present key k,
\* replace_key(k, k) raises the key-already-present error instead of
\* succeeding as a no-op, and leaves array and index as they were.
C18_ReplaceKeySelf ==
    \A k \in DOMAIN position :
        LET r == replace_key(Self, k, k)
        IN /\ r.res = Raise("KeyAlreadyExists")
           /\ ViewM(r.m) = SelfView

\* a full queue, every key of which is rejected as its own replacement
C18_Witness ==
    /\ Len(heap) = MaxLen
    /\ \A k \in DOMAIN position :
          replace_key(Self, k, k).res.err = "KeyAlreadyExists"
    /\ \E k \in DOMAIN position, nk \in Absent :
          replace_key(Self, k, nk).res = Ok

\* C19: update idempotence. For a present key k, updateitem(k, v) with v the
\* current value of k leaves array order and index as they were, and
\* updateitem(k, v) applied twice leaves exactly the queue that applying it
\* once leaves, in every reachable state, those with tied priorities
\* included.
C19_UpdateIdempotent ==
    \A k \in DOMAIN position :
        /\ LET u == updateitem(Self, k, getitem(Self, k).res.value)
           IN u.res = Ok /\ ViewM(u.m) = SelfView
        /\ \A v \in NewValues :
              LET u1 == updateitem(Self, k, v)
                  u2 == updateitem(u1.m, k, v)
              IN /\ u1.res = Ok /\ u2.res = Ok
                 /\ ViewM(u2.m) = ViewM(u1.m)

\* a full queue whose root ties with a child, with an update of the root
\* that moves it and leaves it tied with its new parent
C19_Witness ==
    /\ Len(heap) = MaxLen
    /\ prio(Self, 0) \in {prio(Self, 1), prio(Self, 2)}
    /\ \E k \in DOMAIN position, v \in NewValues :
          LET u1 == updateitem(Self, k, v).m
          IN /\ position[k] = 0
             /\ u1.position[k] > 0
             /\ \E j \in Indices(u1) \ {u1.position[k]} :
                   prio(u1, j) = prioOf(keyfn, v)

====
